---- MODULE Spec2Model ----
(***************************************************************************)
(* env2op / op2env: a model of the .env parser, the header framing, the    *)
(* push flow (runConvert), the pull flow (runInject) and the update check  *)
(* that follows either command (lib/update).                               *)
(*                                                                         *)
(* A string is a sequence of one-character strings.  A text (the content   *)
(* of a file) is kept in its split form, the sequence content.split("\n")  *)
(* yields: it is never empty, and the empty string is << <<>> >>.          *)
(***************************************************************************)
EXTENDS Integers, Sequences, FiniteSets, TLC

VARIABLES
    raw,          \* parseValue: the raw value text handed to parseValue
    value,        \* parseValue: the string it returned
    valueDone,    \* parseValue: TRUE once parseValue has returned
    content,      \* env-parser: the content read from the file (split form)
    stripped,     \* env-parser: stripHeaders(content)
    restripped,   \* env-parser: stripHeaders(stripHeaders(content))
    framed,       \* header + stripHeaders(content), as runInject writes it
    unframed,     \* stripHeaders(framed)
    parseResult,  \* the ParseResult of parseEnvFile
    done,         \* env-parser: the set of steps that have run
    pc,           \* runConvert / runInject: the position in the command
    options,      \* runConvert / runInject: the options of the invocation
    exitCode,     \* the code given to process.exit, -1 while the command runs
    errorCode,    \* the code of the Env2OpError thrown, "" when none
    calls,        \* the provider calls, prompts and file writes of the invocation
    runs,         \* the number of invocations started
    envFile,      \* the .env file read by push: [exists, text]
    vaultCount,   \* provider: the number of vaults that bear the vault name
    items,        \* provider: the items of the vault
    nextId,       \* provider: the number of the next identifier it assigns
    listResponse, \* runConvert: the answer of the provider to the item list call
    exists,       \* runConvert: the result of itemExists
    itemResult,   \* runConvert: the CreateItemResult of the create or the edit
    tplFile,      \* the template file: [exists, text]
    written,      \* every reference a push has written to a template file
    outFile,      \* the .env file written by pull: [exists, text]
    pulled,       \* the number of pulls that have written the .env file
    now,          \* Date.now(), in units of twelve hours
    cache,        \* lib/update: the content of the update cache file
    checkedRun,   \* lib/update: the invocation whose update check has returned
    fetching,     \* lib/update: a registry request is in flight
    requests,     \* lib/update: the registry requests made, with their time
    updateResult  \* lib/update: the UpdateCheckResult returned last

parserVars == <<content, stripped, restripped, framed, unframed, parseResult, done>>
valueVars == <<raw, value, valueDone>>
updateVars == <<now, cache, checkedRun, fetching, requests, updateResult>>
commandVars == <<pc, options, exitCode, errorCode, calls, runs, pulled, updateVars>>
providerVars == <<vaultCount, items, nextId>>
pushVars == <<envFile, listResponse, exists, itemResult, written>>
vars == <<raw, value, valueDone, content, stripped, restripped, framed, unframed,
          parseResult, done, pc, options, exitCode, errorCode, calls, runs, envFile,
          vaultCount, items, nextId, listResponse, exists, itemResult, tplFile,
          written, outFile, pulled, now, cache, checkedRun, fetching, requests,
          updateResult>>

(***************************** bounds ***************************************)
MaxRawLen == 4
MaxLines == 3
MaxRuns == 2
MaxVaults == 2
MaxTime == 6

(***************************** strings **************************************)
\* String.prototype.trim strips white space; U+FEFF counts as white space.
IsWs(c) == c \in {" ", "BOM"}

RECURSIVE TrimStart(_)
TrimStart(s) ==
    IF s # <<>> /\ IsWs(Head(s)) THEN TrimStart(Tail(s)) ELSE s

RECURSIVE TrimEnd(_)
TrimEnd(s) ==
    IF s # <<>> /\ IsWs(s[Len(s)]) THEN TrimEnd(SubSeq(s, 1, Len(s) - 1)) ELSE s

Trim(s) == TrimEnd(TrimStart(s))

StartsWith(s, c) == s # <<>> /\ Head(s) = c

\* s.indexOf(c, from): the 0-based index of the first c at or after from, or -1.
IndexOf(s, c, from) ==
    LET hits == {i \in from .. (Len(s) - 1) : s[i + 1] = c}
    IN  IF hits = {} THEN -1 ELSE CHOOSE i \in hits : \A j \in hits : i <= j

\* s.slice(a, b) for 0 <= a <= b <= s.length.
Slice(s, a, b) == SubSeq(s, a + 1, b)

Includes(s, c) == \E i \in 1 .. Len(s) : s[i] = c

\* s.split(/\s+#/)[0]: the text before the leftmost match of white space followed
\* by "#".
WsRunThenHash(s, i) ==
    \E j \in i .. Len(s) - 1 :
        /\ \A k \in i .. j : IsWs(s[k])
        /\ s[j + 1] = "#"

FirstSplitPart(s) ==
    LET starts == {i \in 1 .. Len(s) : WsRunThenHash(s, i)}
    IN  IF starts = {} THEN s
        ELSE SubSeq(s, 1, (CHOOSE i \in starts : \A j \in starts : i <= j) - 1)

(***************************** parseValue ***********************************)
DQ == "\""
SQ == "'"

\* The closing quote is the LAST occurrence instead of the next one.
parseValueLastQuote(rawText) ==
    LET trimmed == Trim(rawText)
        lastOf(q) ==
            LET hits == {i \in 1 .. (Len(trimmed) - 1) : trimmed[i + 1] = q}
            IN  IF hits = {} THEN -1 ELSE CHOOSE i \in hits : \A j \in hits : i >= j
    IN  IF StartsWith(trimmed, DQ) /\ lastOf(DQ) # -1
        THEN Slice(trimmed, 1, lastOf(DQ))
        ELSE IF StartsWith(trimmed, SQ) /\ lastOf(SQ) # -1
        THEN Slice(trimmed, 1, lastOf(SQ))
        ELSE Trim(FirstSplitPart(trimmed))

\* Every "#" starts a comment, whether white space precedes it or not.
parseValueAnyHash(rawText) ==
    LET trimmed == Trim(rawText)
    IN  IF StartsWith(trimmed, DQ) /\ IndexOf(trimmed, DQ, 1) # -1
        THEN Slice(trimmed, 1, IndexOf(trimmed, DQ, 1))
        ELSE IF StartsWith(trimmed, SQ) /\ IndexOf(trimmed, SQ, 1) # -1
        THEN Slice(trimmed, 1, IndexOf(trimmed, SQ, 1))
        ELSE IF Includes(trimmed, "#")
        THEN Trim(Slice(trimmed, 0, IndexOf(trimmed, "#", 0)))
        ELSE trimmed

parseValue(rawText) ==
    LET trimmed == Trim(rawText)
    IN  IF StartsWith(trimmed, DQ) /\ IndexOf(trimmed, DQ, 1) # -1
        THEN Slice(trimmed, 1, IndexOf(trimmed, DQ, 1))
        ELSE IF StartsWith(trimmed, SQ) /\ IndexOf(trimmed, SQ, 1) # -1
        THEN Slice(trimmed, 1, IndexOf(trimmed, SQ, 1))
        ELSE Trim(FirstSplitPart(trimmed))

(***************************** stripHeaders *********************************)
\* HEADER_SEPARATOR is "# " followed by a run of "="; the run is shortened here.
HEADER_SEPARATOR == <<"#", " ", "=", "=">>

IsSeparator(line) == Trim(line) = HEADER_SEPARATOR
IsBlank(line) == Trim(line) = <<>>

\* The loop of stripHeaders: the lines pushed to result, with inHeader carried.
RECURSIVE StripLoop(_, _)
StripLoop(lines, inHeader) ==
    IF lines = <<>> THEN <<>>
    ELSE IF IsSeparator(Head(lines)) THEN StripLoop(Tail(lines), ~inHeader)
    ELSE IF ~inHeader THEN <<Head(lines)>> \o StripLoop(Tail(lines), inHeader)
    ELSE StripLoop(Tail(lines), inHeader)

\* while (result.length > 0 && result[0]?.trim() === "") result.shift()
RECURSIVE ShiftBlank(_)
ShiftBlank(result) ==
    IF result # <<>> /\ IsBlank(Head(result)) THEN ShiftBlank(Tail(result)) ELSE result

\* result.join("\n") in split form: joining no line gives the empty string.
JoinLines(result) == IF result = <<>> THEN << <<>> >> ELSE result

EmptyText == << <<>> >>

\* The closing separator does not end the header: every separator opens one.
stripHeadersNoClose(text) ==
    LET RECURSIVE Loop(_, _)
        Loop(lines, inHeader) ==
            IF lines = <<>> THEN <<>>
            ELSE IF IsSeparator(Head(lines)) THEN Loop(Tail(lines), TRUE)
            ELSE IF ~inHeader THEN <<Head(lines)>> \o Loop(Tail(lines), inHeader)
            ELSE Loop(Tail(lines), inHeader)
    IN  JoinLines(ShiftBlank(Loop(text, FALSE)))

\* The leading blank lines are kept.
stripHeadersKeepBlank(text) == JoinLines(StripLoop(text, FALSE))

stripHeaders(text) == JoinLines(ShiftBlank(StripLoop(text, FALSE)))

(***************************** parseEnvFile *********************************)
stripBom(text) ==
    IF Head(text) # <<>> /\ Head(Head(text)) = "BOM"
    THEN <<Tail(Head(text))>> \o Tail(text)
    ELSE text

\* The character classes of /^([A-Za-z_][A-Za-z0-9_]*)=(.*)$/ over the alphabet used.
IsKeyStart(c) == c \in {"A", "B", "C", "D", "_"}
IsKeyChar(c) == IsKeyStart(c) \/ c \in {"1", "2"}

\* The match of the KEY=VALUE pattern on a trimmed line: the key is the text before
\* the first "=", the raw value all the text after it.
KeyOf(trimmed) == Slice(trimmed, 0, IndexOf(trimmed, "=", 0))
RawValueOf(trimmed) == Slice(trimmed, IndexOf(trimmed, "=", 0) + 1, Len(trimmed))

\* Any text before the first "=" is taken for a key.
MatchesAnyKey(trimmed) == IndexOf(trimmed, "=", 0) >= 1

Matches(trimmed) ==
    /\ IndexOf(trimmed, "=", 0) >= 1
    /\ IsKeyStart(trimmed[1])
    /\ \A i \in 1 .. IndexOf(trimmed, "=", 0) : IsKeyChar(trimmed[i])

NoComment == <<"undefined">>

EmptyResult == [variables |-> <<>>, lines |-> <<>>, errors |-> <<>>]

\* A parsed variable leaves the pending comment in place for the next variable.
ParseLineKeepComment(acc, line, lineNumber) ==
    LET trimmed == Trim(line)
    IN  IF trimmed = <<>>
        THEN [acc EXCEPT !.lines = Append(@, [type |-> "empty"]),
                         !.currentComment = <<>>]
        ELSE IF StartsWith(trimmed, "#")
        THEN [acc EXCEPT !.lines = Append(@, [type |-> "comment", content |-> line]),
                         !.currentComment = Trim(Tail(trimmed))]
        ELSE IF Matches(trimmed)
        THEN [acc EXCEPT
                !.variables = Append(@, [key |-> KeyOf(trimmed),
                                         value |-> parseValue(RawValueOf(trimmed)),
                                         comment |-> IF acc.currentComment = <<>>
                                                     THEN NoComment
                                                     ELSE acc.currentComment,
                                         line |-> lineNumber]),
                !.lines = Append(@, [type |-> "variable", key |-> KeyOf(trimmed),
                                     value |-> parseValue(RawValueOf(trimmed))])]
        ELSE IF Includes(trimmed, "=")
        THEN [acc EXCEPT !.errors = Append(@, [line |-> lineNumber,
                                               message |-> "Invalid variable name"])]
        ELSE acc

\* One iteration of the loop of parseEnvFile over rawLines[i], on the accumulator
\* acc = [variables, lines, errors, currentComment].
ParseLine(acc, line, lineNumber) ==
    LET trimmed == Trim(line)
    IN  IF trimmed = <<>>
        THEN [acc EXCEPT !.lines = Append(@, [type |-> "empty"]),
                         !.currentComment = <<>>]
        ELSE IF StartsWith(trimmed, "#")
        THEN [acc EXCEPT !.lines = Append(@, [type |-> "comment", content |-> line]),
                         !.currentComment = Trim(Tail(trimmed))]
        ELSE IF Matches(trimmed)
        THEN [acc EXCEPT
                !.variables = Append(@, [key |-> KeyOf(trimmed),
                                         value |-> parseValue(RawValueOf(trimmed)),
                                         comment |-> IF acc.currentComment = <<>>
                                                     THEN NoComment
                                                     ELSE acc.currentComment,
                                         line |-> lineNumber]),
                !.lines = Append(@, [type |-> "variable", key |-> KeyOf(trimmed),
                                     value |-> parseValue(RawValueOf(trimmed))]),
                !.currentComment = <<>>]
        ELSE IF Includes(trimmed, "=")
        THEN [acc EXCEPT !.errors = Append(@, [line |-> lineNumber,
                                               message |-> "Invalid variable name"])]
        ELSE acc

RECURSIVE ParseLoop(_, _, _)
ParseLoop(acc, rawLines, i) ==
    IF i > Len(rawLines) THEN acc
    ELSE ParseLoop(ParseLine(acc, rawLines[i], i), rawLines, i + 1)

ParseContent(rawLines) ==
    LET acc == ParseLoop([variables |-> <<>>, lines |-> <<>>, errors |-> <<>>,
                          currentComment |-> <<>>], rawLines, 1)
    IN  [variables |-> acc.variables, lines |-> acc.lines, errors |-> acc.errors]

\* Blank lines are skipped without an entry in lines, as before lines existed.
parseEnvFileNoEmpty(rawContent) ==
    LET r == ParseContent(stripHeaders(stripBom(rawContent)))
    IN  [r EXCEPT !.lines = SelectSeq(@, LAMBDA l : l.type # "empty")]

\* The variable entry of lines carries the key where the value belongs.
parseEnvFileKeyAsValue(rawContent) ==
    LET r == ParseContent(stripHeaders(stripBom(rawContent)))
    IN  [r EXCEPT !.lines =
            [i \in 1 .. Len(r.lines) |->
                IF r.lines[i].type = "variable"
                THEN [r.lines[i] EXCEPT !.value = r.lines[i].key]
                ELSE r.lines[i]]]

parseEnvFile(rawContent) == ParseContent(stripHeaders(stripBom(rawContent)))

(***************************** header framing *******************************)
\* generateEnvHeader(fileName): the separator, the generation marker, the separator,
\* then two empty strings, so that the joined header ends with a blank line.
generateEnvHeader == <<HEADER_SEPARATOR, <<"#", " ", "g">>, HEADER_SEPARATOR, <<>>, <<>>>>

\* header + envContent on strings, in split form: the last line of the left text and
\* the first line of the right text become one line.
ConcatText(left, right) ==
    SubSeq(left, 1, Len(left) - 1) \o <<left[Len(left)] \o Head(right)>> \o Tail(right)

\* const header = generateEnvHeader(...).join("\n"); header + envContent
prependHeader(envContent) == ConcatText(JoinLines(generateEnvHeader), envContent)

(***************************** inputs ***************************************)
ValueAlphabet == {DQ, SQ, "#", " ", "a"}
RawValues == UNION {[1 .. n -> ValueAlphabet] : n \in 0 .. MaxRawLen}

LinePool ==
    { <<>>,
      <<" ">>,
      <<"#", " ", "c">>,
      <<" ", "#", "d">>,
      <<"#">>,
      HEADER_SEPARATOR,
      <<" ">> \o HEADER_SEPARATOR \o <<" ">>,
      <<"A", "=", "1">>,
      <<"B", "=", "2", " ", "#", "c">>,
      <<"BOM", "C", "=", "1">>,
      <<"1", "A", "=", "1">>,
      <<"x">> }
Texts == UNION {[1 .. n -> LinePool] : n \in 1 .. MaxLines}

(***************************** the commands, not in use *********************)
NoItemResult == [id |-> "", title |-> "", vault |-> "", vaultId |-> "", fieldIds |-> {}]
NoFile == [exists |-> FALSE, text |-> EmptyText]

\* lib/update: 24 * 60 * 60 * 1000 ms, in units of twelve hours.
CHECK_INTERVAL_MS == 2

\* A version is held as its parts, v.split(".").map(Number); null is the empty one.
Null == <<>>

\* What loadCache returns when there is no cache file.
DefaultCache == [lastCheck |-> 0, latestVersion |-> Null]

NoUpdateResult ==
    [latestVersion |-> Null, updateAvailable |-> FALSE, isSkipped |-> FALSE,
     fromCache |-> FALSE]

\* No update check has run: no cache file, the clock past the first interval.
UpdateIdle ==
    /\ now = CHECK_INTERVAL_MS + 1 /\ cache = DefaultCache /\ checkedRun = 0
    /\ fetching = FALSE /\ requests = <<>> /\ updateResult = NoUpdateResult

CommandIdle ==
    /\ UpdateIdle
    /\ pc = "off" /\ options = [dryRun |-> FALSE] /\ exitCode = -1 /\ errorCode = ""
    /\ calls = <<>> /\ runs = 0
    /\ envFile = NoFile /\ vaultCount = 0 /\ items = {} /\ nextId = 1
    /\ listResponse = "none" /\ exists = FALSE /\ itemResult = NoItemResult
    /\ tplFile = NoFile /\ written = {} /\ outFile = NoFile /\ pulled = 0

(***************************** parseValue, applied **************************)
ValueIdle == raw = <<>> /\ value = <<>> /\ valueDone = TRUE
ParserIdle ==
    /\ content = EmptyText /\ stripped = EmptyText /\ restripped = EmptyText
    /\ framed = EmptyText /\ unframed = EmptyText
    /\ parseResult = EmptyResult /\ done = {"idle"}

InitValue ==
    /\ raw \in RawValues
    /\ value = <<>>
    /\ valueDone = FALSE
    /\ ParserIdle
    /\ CommandIdle

ParseValueStep ==
    /\ ~valueDone
    /\ value' = parseValue(raw)
    /\ valueDone' = TRUE
    /\ UNCHANGED <<raw, parserVars, commandVars, providerVars, pushVars, tplFile, outFile>>

NextValue == ParseValueStep

SpecValue == InitValue /\ [][NextValue]_vars

(***************************** env-parser, applied **************************)
InitParser ==
    /\ content \in Texts
    /\ stripped = EmptyText /\ restripped = EmptyText
    /\ framed = EmptyText /\ unframed = EmptyText
    /\ parseResult = EmptyResult
    /\ done = {}
    /\ ValueIdle
    /\ CommandIdle

\* parseEnvFile on the content read from the file.
ParseStep ==
    /\ "idle" \notin done /\ "parse" \notin done
    /\ parseResult' = parseEnvFile(content)
    /\ done' = done \cup {"parse"}
    /\ UNCHANGED <<content, stripped, restripped, framed, unframed, valueVars,
                   commandVars, providerVars, pushVars, tplFile, outFile>>

\* const envContent = stripHeaders(rawContent)
StripStep ==
    /\ "idle" \notin done /\ "strip" \notin done
    /\ stripped' = stripHeaders(content)
    /\ done' = done \cup {"strip"}
    /\ UNCHANGED <<content, restripped, framed, unframed, parseResult, valueVars,
                   commandVars, providerVars, pushVars, tplFile, outFile>>

\* stripHeaders on already stripped content (parseEnvFile on a stripped file).
RestripStep ==
    /\ "strip" \in done /\ "restrip" \notin done
    /\ restripped' = stripHeaders(stripped)
    /\ done' = done \cup {"restrip"}
    /\ UNCHANGED <<content, stripped, framed, unframed, parseResult, valueVars,
                   commandVars, providerVars, pushVars, tplFile, outFile>>

\* writeFileSync(outputPath, header + envContent)
FrameStep ==
    /\ "restrip" \in done /\ "frame" \notin done
    /\ framed' = prependHeader(stripped)
    /\ done' = done \cup {"frame"}
    /\ UNCHANGED <<content, stripped, restripped, unframed, parseResult, valueVars,
                   commandVars, providerVars, pushVars, tplFile, outFile>>

\* stripHeaders on the framed file, as the next pull or push reads it.
UnframeStep ==
    /\ "frame" \in done /\ "unframe" \notin done
    /\ unframed' = stripHeaders(framed)
    /\ done' = done \cup {"unframe"}
    /\ UNCHANGED <<content, stripped, restripped, framed, parseResult, valueVars,
                   commandVars, providerVars, pushVars, tplFile, outFile>>

NextParser == ParseStep \/ StripStep \/ RestripStep \/ FrameStep \/ UnframeStep

SpecParser == InitParser /\ [][NextParser]_vars

(***************************** claims: the parser ***************************)
\* The lines of a text outside every header region: a region runs from a separator
\* line to the next separator line, or to the end of the text when there is none.
OutsideHeader(text) ==
    {i \in 1 .. Len(text) :
        /\ ~IsSeparator(text[i])
        /\ Cardinality({j \in 1 .. i - 1 : IsSeparator(text[j])}) % 2 = 0}

\* What a line of the source is in the document: a blank line, a comment kept
\* verbatim, a variable with its key, or a line the parser leaves out.
Shape(line) ==
    IF IsBlank(line) THEN [type |-> "empty"]
    ELSE IF StartsWith(Trim(line), "#") THEN [type |-> "comment", content |-> line]
    ELSE IF Matches(Trim(line)) THEN [type |-> "variable", key |-> KeyOf(Trim(line))]
    ELSE [type |-> "none"]

\* The shapes of the lines of text at the indices in keep, in the order of the text.
RECURSIVE ShapesFrom(_, _, _)
ShapesFrom(text, keep, i) ==
    IF i > Len(text) THEN <<>>
    ELSE IF i \in keep /\ Shape(text[i]).type # "none"
    THEN <<Shape(text[i])>> \o ShapesFrom(text, keep, i + 1)
    ELSE ShapesFrom(text, keep, i + 1)

\* The entries of lines, a variable entry reduced to its key.
Skeleton(lines) ==
    [i \in 1 .. Len(lines) |->
        IF lines[i].type = "variable"
        THEN [type |-> "variable", key |-> lines[i].key]
        ELSE lines[i]]

\* The indices outside the header regions from the first non-blank such line on.
AfterLeadingBlank(text) ==
    {i \in OutsideHeader(text) :
        \E j \in OutsideHeader(text) : j <= i /\ ~IsBlank(text[j])}

C5_VariablesAreVariableLines ==
    "parse" \in done =>
        LET varLines == SelectSeq(parseResult.lines, LAMBDA l : l.type = "variable")
        IN  /\ Len(varLines) = Len(parseResult.variables)
            /\ \A i \in 1 .. Len(varLines) :
                 /\ varLines[i].key = parseResult.variables[i].key
                 /\ varLines[i].value = parseResult.variables[i].value

C5_Witness ==
    /\ "parse" \in done
    /\ Len(parseResult.variables) >= 2
    /\ Len(parseResult.lines) > Len(parseResult.variables)
    /\ parseResult.variables[1].key # parseResult.variables[1].value

\* C6 as stated: stripHeaders(prependHeader(stripHeaders(X))) =
\* prependHeader(stripHeaders(X)).
C6_StripKeepsFramedText ==
    "unframe" \in done => unframed = framed

\* C6 amended: stripHeaders(prependHeader(stripHeaders(X))) = stripHeaders(X).
C6_StripUndoesPrepend ==
    "unframe" \in done => unframed = stripped

C6_Witness ==
    /\ "unframe" \in done
    /\ \E i \in 1 .. Len(content) : IsSeparator(content[i])
    /\ stripped # EmptyText
    /\ Len(framed) = Len(stripped) + 4

\* C7: stripHeaders(stripHeaders(X)) = stripHeaders(X); the output of stripHeaders
\* holds no separator line and, unless it is the empty string, does not start with a
\* blank line.
C7_StripIdempotent ==
    "restrip" \in done =>
        /\ restripped = stripped
        /\ \A i \in 1 .. Len(stripped) : ~IsSeparator(stripped[i])
        /\ stripped = EmptyText \/ ~IsBlank(stripped[1])

C7_Witness ==
    /\ "restrip" \in done
    /\ \E i \in 1 .. Len(content) : IsSeparator(content[i])
    /\ IsBlank(content[1])
    /\ stripped # EmptyText
    /\ Len(stripped) < Len(content)

\* C10: when the trimmed value starts with a quote and holds the same quote again,
\* the parsed value is exactly the text between the opening quote and the next
\* occurrence of that quote.
C10_QuotedValue ==
    valueDone =>
        \A q \in {DQ, SQ} :
            LET trimmed == Trim(raw)
            IN  (StartsWith(trimmed, q) /\ \E i \in 2 .. Len(trimmed) : trimmed[i] = q) =>
                    /\ Len(value) + 2 <= Len(trimmed)
                    /\ trimmed[Len(value) + 2] = q
                    /\ \A i \in 1 .. Len(value) :
                         value[i] = trimmed[i + 1] /\ value[i] # q

\* A quoted value holding "#" with text after the closing quote.
C10_Witness ==
    /\ valueDone
    /\ Trim(raw) # <<>>
    /\ Head(Trim(raw)) \in {DQ, SQ}
    /\ Includes(value, "#")
    /\ Len(value) + 2 < Len(Trim(raw))

\* C11: when the trimmed value is not enclosed by a quote and the next occurrence of
\* the same quote, the parsed value is the trimmed text before the first white space
\* that a "#" follows, or the whole trimmed text if there is none; an empty value
\* parses to the empty string.
QuotePair(trimmed) ==
    \E q \in {DQ, SQ} :
        StartsWith(trimmed, q) /\ \E i \in 2 .. Len(trimmed) : trimmed[i] = q

CommentStarts(trimmed) ==
    {p \in 1 .. Len(trimmed) - 1 : IsWs(trimmed[p]) /\ trimmed[p + 1] = "#"}

C11_UnquotedValue ==
    (valueDone /\ ~QuotePair(Trim(raw))) =>
        LET trimmed == Trim(raw)
            starts == CommentStarts(trimmed)
        IN  /\ starts = {} => value = trimmed
            /\ \A p \in starts :
                  (\A r \in starts : p <= r) => value = Trim(SubSeq(trimmed, 1, p - 1))
            /\ raw = <<>> => value = <<>>

\* C11 witness: a value whose opening quote is never closed keeps the quote and
\* loses its trailing comment.
C11_Witness ==
    /\ valueDone
    /\ value # <<>> /\ Head(value) \in {DQ, SQ}
    /\ Len(value) < Len(Trim(raw))
    /\ ~QuotePair(Trim(raw))


\* C12: a line of the tokenized text that is neither blank nor a comment, holds "="
\* and has no valid key before its first "=" adds one entry "Line N: Invalid variable
\* name" to errors, N being its number in the tokenized text, and nothing to variables
\* or lines; the lines after it are parsed as usual; every key of variables is valid.
ValidKey(k) ==
    /\ k # <<>>
    /\ k[1] \in {"A", "B", "C", "D", "_"}
    /\ \A i \in 1 .. Len(k) : k[i] \in {"A", "B", "C", "D", "_", "1", "2"}

TextBeforeEquals(trimmed) ==
    SubSeq(trimmed, 1, (CHOOSE i \in 1 .. Len(trimmed) :
                            trimmed[i] = "=" /\ \A j \in 1 .. (i - 1) : trimmed[j] # "=") - 1)

LineKind(line) ==
    LET trimmed == Trim(line)
    IN  IF trimmed = <<>> THEN "empty"
        ELSE IF Head(trimmed) = "#" THEN "comment"
        ELSE IF ~Includes(trimmed, "=") THEN "ignored"
        ELSE IF ValidKey(TextBeforeEquals(trimmed)) THEN "variable"
        ELSE "invalid"

C12_InvalidKeyReported ==
    "parse" \in done =>
        LET tokenized == stripHeaders(stripBom(content))
            ofKind(k) == {i \in 1 .. Len(tokenized) : LineKind(tokenized[i]) = k}
            errs == parseResult.errors
        IN  /\ Len(errs) = Cardinality(ofKind("invalid"))
            /\ {errs[i].line : i \in 1 .. Len(errs)} = ofKind("invalid")
            /\ \A i \in 1 .. Len(errs) : errs[i].message = "Invalid variable name"
            /\ \A i, j \in 1 .. Len(errs) : i < j => errs[i].line < errs[j].line
            /\ Len(parseResult.variables) = Cardinality(ofKind("variable"))
            /\ {parseResult.variables[i].line : i \in 1 .. Len(parseResult.variables)}
                  = ofKind("variable")
            /\ Len(parseResult.lines) =
                  Cardinality(ofKind("empty") \cup ofKind("comment") \cup ofKind("variable"))
            /\ \A i \in 1 .. Len(parseResult.variables) :
                  ValidKey(parseResult.variables[i].key)

\* C12 witness: a line with an invalid key is reported and a variable after it is
\* parsed.
C12_Witness ==
    /\ "parse" \in done
    /\ Len(parseResult.errors) = 1
    /\ \E i \in 1 .. Len(parseResult.variables) :
          parseResult.variables[i].line > parseResult.errors[1].line
    /\ Len(parseResult.lines) = Len(parseResult.variables)

(***************************** the provider *********************************)
\* The vault name and the item title given on the command line, the title of another
\* item of the vault, and the identifier the provider gave the vault.
VaultName == "V"
Title == "T"
OtherTitle == "t"
VaultId == "v1"

\* The field every Secure Note has besides the fields given at its creation.
BuiltInField == [id |-> "notesPlain", label |-> <<"notesPlain">>, type |-> "STRING",
                 value |-> <<>>]

\* const fieldArgs = fields.map(({ key, value }) => `${key}[${fieldType}]=${value}`)
FieldArg(v, secret) ==
    v.key \o <<"[", IF secret THEN "password" ELSE "text", "]", "=">> \o v.value

\* Every field is given the text type, whatever the secret flag.
fieldArgsPlain(fields, secret) == [i \in 1 .. Len(fields) |-> FieldArg(fields[i], FALSE)]

fieldArgs(fields, secret) == [i \in 1 .. Len(fields) |-> FieldArg(fields[i], secret)]

\* quoteArg of exec: an argument that holds a space, a bracket, a quote, a backslash
\* or "=" is put between single quotes, each single quote of it written as '\''.
NeedsQuoting(arg) ==
    \E i \in 1 .. Len(arg) : arg[i] \in {" ", "[", "]", SQ, DQ, "\\", "="}

RECURSIVE EscapeQuotes(_)
EscapeQuotes(arg) ==
    IF arg = <<>> THEN <<>>
    ELSE (IF Head(arg) = SQ THEN <<SQ, "\\", SQ, SQ>> ELSE <<Head(arg)>>)
         \o EscapeQuotes(Tail(arg))

quoteArg(arg) == IF NeedsQuoting(arg) THEN <<SQ>> \o EscapeQuotes(arg) \o <<SQ>> ELSE arg

\* The word bash -c hands to the command for a quoted argument: the text between
\* single quotes as it is, a character after a backslash outside them as it is.
RECURSIVE ShellWord(_, _)
ShellWord(word, inQuotes) ==
    IF word = <<>> THEN <<>>
    ELSE IF inQuotes
    THEN IF Head(word) = SQ THEN ShellWord(Tail(word), FALSE)
         ELSE <<Head(word)>> \o ShellWord(Tail(word), TRUE)
    ELSE IF Head(word) = SQ THEN ShellWord(Tail(word), TRUE)
    ELSE IF Head(word) = "\\" /\ Len(word) >= 2
    THEN <<word[2]>> \o ShellWord(Tail(Tail(word)), FALSE)
    ELSE <<Head(word)>> \o ShellWord(Tail(word), FALSE)

\* exec: the arguments as the provider command receives them.
exec(args) == [i \in 1 .. Len(args) |-> ShellWord(quoteArg(args[i]), FALSE)]

\* How the provider reads an assignment LABEL[type]=value.
ArgLabel(arg) == Slice(arg, 0, IndexOf(arg, "[", 0))
ArgType(arg) == IF arg[IndexOf(arg, "[", 0) + 2] = "password" THEN "CONCEALED" ELSE "STRING"
ArgValue(arg) == Slice(arg, IndexOf(arg, "=", 0) + 1, Len(arg))

\* The provider applies the assignments in order: a field that bears the label takes
\* the value and the type and keeps its id, otherwise a field with a fresh id is added.
RECURSIVE Assign(_, _, _)
Assign(fields, args, nid) ==
    IF args = <<>> THEN [fields |-> fields, nextId |-> nid]
    ELSE LET a == Head(args)
             hit == {i \in 1 .. Len(fields) : fields[i].label = ArgLabel(a)}
         IN  IF hit # {}
             THEN Assign([i \in 1 .. Len(fields) |->
                             IF i \in hit
                             THEN [fields[i] EXCEPT !.type = ArgType(a), !.value = ArgValue(a)]
                             ELSE fields[i]],
                         Tail(args), nid)
             ELSE Assign(Append(fields, [id |-> "f" \o ToString(nid), label |-> ArgLabel(a),
                                         type |-> ArgType(a), value |-> ArgValue(a)]),
                         Tail(args), nid + 1)

Matching(its, title) == {it \in its : it.title = title}

\* A call that names the vault or an item is answered only if the name designates
\* exactly one of them, and if the provider can be reached (up).
Failed(its, nid) == [ok |-> FALSE, items |-> its, nextId |-> nid]

\* op item create --category "Secure Note" --vault V --title T ...fieldArgs
opItemCreate(up, vc, its, title, args, nid) ==
    IF ~up \/ vc # 1 THEN Failed(its, nid)
    ELSE LET r == Assign(<<BuiltInField>>, args, nid + 1)
         IN  [ok |-> TRUE,
              items |-> its \cup {[id |-> "i" \o ToString(nid), title |-> title,
                                   fields |-> r.fields]},
              nextId |-> r.nextId]

\* op item edit T --vault V ...fieldArgs
opItemEdit(up, vc, its, title, args, nid) ==
    IF ~up \/ vc # 1 \/ Cardinality(Matching(its, title)) # 1 THEN Failed(its, nid)
    ELSE LET it == CHOOSE x \in Matching(its, title) : TRUE
             r == Assign(it.fields, args, nid)
         IN  [ok |-> TRUE,
              items |-> (its \ {it}) \cup {[it EXCEPT !.fields = r.fields]},
              nextId |-> r.nextId]

\* The overwrite of the earlier runConvert: deleteItem, then createSecureNote.
opItemDeleteThenCreate(up, vc, its, title, args, nid) ==
    opItemCreate(up, vc, its \ Matching(its, title), title, args, nid)

\* op vault get V --format json
opVaultGet(up, vc) == [exitCode |-> IF up /\ vc = 1 THEN 0 ELSE 1]

\* op item list --vault V --format json: the answers the command can give.
opItemList(vc, its) ==
    {[exitCode |-> 1, json |-> FALSE, titles |-> {}]} \cup
    (IF vc = 1
     THEN {[exitCode |-> 0, json |-> TRUE, titles |-> {it.title : it \in its}],
           [exitCode |-> 0, json |-> FALSE, titles |-> {}]}
     ELSE {})

NoListResponse == [exitCode |-> -1, json |-> FALSE, titles |-> {}]

\* op item get T --vault V --format json: the answers the command can give; the
\* answer may lack the fields array.
opItemGet(vc, its, title) ==
    {[exitCode |-> 1, id |-> "", title |-> "", hasVault |-> FALSE, hasFields |-> FALSE,
      fields |-> <<>>]} \cup
    (IF vc = 1 /\ Cardinality(Matching(its, title)) = 1
     THEN LET it == CHOOSE x \in Matching(its, title) : TRUE
          IN  {[exitCode |-> 0, id |-> it.id, title |-> it.title, hasVault |-> hv,
                hasFields |-> hf, fields |-> IF hf THEN it.fields ELSE <<>>]
               : hv \in BOOLEAN, hf \in BOOLEAN}
     ELSE {})


(***************************** onepassword.ts *******************************)
\* Any listed title that differs from the title only in the case of its letters counts
\* as the item.
itemExistsAnyCase(resp, title) ==
    resp.exitCode = 0 /\ resp.json /\ resp.titles \cap {title, OtherTitle} # {}

\* itemExists: false when the list call fails or its output does not parse, otherwise
\* whether some listed item bears exactly the title.
itemExists(resp, title) == resp.exitCode = 0 /\ resp.json /\ title \in resp.titles

vaultExists(resp) == resp.exitCode = 0

\* The fieldIds of createSecureNote and editSecureNote: a later field of the same
\* label replaces the entry of an earlier one.
extractFieldIds(fields) ==
    {[label |-> fields[i].label, id |-> fields[i].id] :
        i \in {j \in 1 .. Len(fields) :
                 \A k \in (j + 1) .. Len(fields) : fields[k].label # fields[j].label}}

\* The CreateItemResult built from the answer to op item get.
ItemResultOf(getResult) ==
    [id |-> getResult.id,
     title |-> getResult.title,
     vault |-> VaultName,
     vaultId |-> IF getResult.hasVault THEN VaultId ELSE "",
     fieldIds |-> IF getResult.hasFields THEN extractFieldIds(getResult.fields) ELSE {}]

(***************************** template-generator.ts ************************)
HasFieldId(fieldIds, key) == \E e \in fieldIds : e.label = key
FieldIdOf(fieldIds, key) == (CHOOSE e \in fieldIds : e.label = key).id

TemplateLine(opts, line) ==
    IF line.type = "empty" THEN <<>>
    ELSE IF line.type = "comment" THEN line.content
    ELSE line.key \o <<"=", "ref://", opts.vaultId, "/", opts.itemId, "/",
                       FieldIdOf(opts.fieldIds, line.key)>>

\* generateTemplateContent: one line per entry of lines, joined by "\n"; fails when a
\* variable line has no field id.
generateTemplateContent(opts) ==
    IF \E i \in 1 .. Len(opts.lines) :
          opts.lines[i].type = "variable" /\ ~HasFieldId(opts.fieldIds, opts.lines[i].key)
    THEN [error |-> "MISSING_FIELD_ID", text |-> EmptyText]
    ELSE [error |-> "",
          text |-> JoinLines([i \in 1 .. Len(opts.lines) |-> TemplateLine(opts, opts.lines[i])])]

\* The references a template holds, for the record of what was written.
ReferencesOf(opts) ==
    {[vaultId |-> opts.vaultId, itemId |-> opts.itemId, key |-> opts.lines[i].key,
      fieldId |-> FieldIdOf(opts.fieldIds, opts.lines[i].key)] :
        i \in {j \in 1 .. Len(opts.lines) : opts.lines[j].type = "variable"}}

(***************************** runConvert ***********************************)
\* The vault is designated by the name it was given on the command line.
TemplateOptionsVaultName(result, parsed) ==
    [vaultId |-> result.vault, itemId |-> result.id, variables |-> parsed.variables,
     lines |-> parsed.lines, fieldIds |-> result.fieldIds]

\* The argument runConvert hands to generateTemplateContent.
TemplateOptions(result, parsed) ==
    [vaultId |-> result.vaultId, itemId |-> result.id, variables |-> parsed.variables,
     lines |-> parsed.lines, fieldIds |-> result.fieldIds]

\* The item is overwritten as the earlier runConvert did: deleteItem, then
\* createSecureNote.
UpdateItemDeleteThenCreate(up, vc, its, vs, secret, nid) ==
    opItemDeleteThenCreate(up, vc, its, Title, exec(fieldArgs(vs, secret)), nid)

\* The request runConvert makes for an item that exists: editSecureNote.
UpdateItem(up, vc, its, vs, secret, nid) ==
    opItemEdit(up, vc, its, Title, exec(fieldArgs(vs, secret)), nid)

\* The .env files a push is given.
EnvABC == << <<"#", " ", "c">>, <<"A", "=", "1">>, <<>>, <<"B", "=", "1">>,
             <<"C", "=", "1">> >>
EnvBCD == << <<"B", "=", "2">>, <<"C", "=", "1">>, <<"D", "=", "a", SQ, "=">> >>
EnvNoVariable == << <<"#", " ", "c">> >>
EnvFiles == {NoFile} \cup {[exists |-> TRUE, text |-> t] : t \in {EnvABC, EnvBCD, EnvNoVariable}}

Call(op, ok) == [op |-> op, ok |-> ok]
Issued(op) == \E i \in 1 .. Len(calls) : calls[i].op = op
Succeeded(op) == \E i \in 1 .. Len(calls) : calls[i] = Call(op, TRUE)

\* throw new Env2OpError(..., code) and the catch of the command: process.exit(1).
Fail(code) == pc' = "exited" /\ exitCode' = 1 /\ errorCode' = code

\* What p.confirm can return: true, false, or the cancel symbol; only true confirms
\* (p.isCancel(answer) || !answer).
Answers == {"yes", "no", "cancel"}
Confirmed(answer) == answer = "yes"

\* process.exit(0) after a declined confirmation.
Cancel == pc' = "exited" /\ exitCode' = 0 /\ errorCode' = ""

idleVars == <<raw, value, valueDone, content, stripped, restripped, framed, unframed,
              done, outFile, pulled, updateVars>>


InitPush ==
    /\ ValueIdle
    /\ UpdateIdle
    /\ content = EmptyText /\ stripped = EmptyText /\ restripped = EmptyText
    /\ framed = EmptyText /\ unframed = EmptyText /\ done = {"idle"}
    /\ parseResult = EmptyResult
    /\ pc = "off" /\ options = [dryRun |-> FALSE, secret |-> FALSE, force |-> FALSE]
    /\ exitCode = -1 /\ errorCode = "" /\ calls = <<>> /\ runs = 0
    /\ envFile = NoFile
    /\ vaultCount \in {0, 1}
    /\ items \in {{}} \cup
                 (IF vaultCount = 1
                  THEN {{[id |-> "i0", title |-> OtherTitle, fields |-> <<BuiltInField>>]}}
                  ELSE {})
    /\ nextId = 1
    /\ listResponse = NoListResponse /\ exists = FALSE /\ itemResult = NoItemResult
    /\ tplFile = NoFile /\ written = {} /\ outFile = NoFile /\ pulled = 0

\* env2op <env_file> <vault> <item_name> [--dry-run] [--secret] [--force]
StartPush ==
    /\ pc \in {"off", "done", "exited"}
    /\ runs < MaxRuns
    /\ runs' = runs + 1
    /\ options' \in [dryRun : BOOLEAN, secret : BOOLEAN, force : BOOLEAN]
    /\ envFile' \in EnvFiles
    /\ pc' = "parse" /\ exitCode' = -1 /\ errorCode' = "" /\ calls' = <<>>
    /\ parseResult' = EmptyResult
    /\ listResponse' = NoListResponse /\ exists' = FALSE /\ itemResult' = NoItemResult
    /\ UNCHANGED <<idleVars, providerVars, tplFile, written>>

\* The provider checks are made on a dry run as on a real run.
ParseEnvThenChecks ==
    /\ pc = "parse"
    /\ IF ~envFile.exists
       THEN Fail("ENV_FILE_NOT_FOUND") /\ UNCHANGED parseResult
       ELSE /\ parseResult' = parseEnvFile(envFile.text)
            /\ IF parseResult'.variables = <<>>
               THEN Fail("ENV_FILE_EMPTY")
               ELSE pc' = "checkCli" /\ UNCHANGED <<exitCode, errorCode>>
    /\ UNCHANGED <<idleVars, options, calls, runs, providerVars, pushVars, tplFile>>

\* Step 1: parseEnvFile and validateParseResult.
ParseEnv ==
    /\ pc = "parse"
    /\ IF ~envFile.exists
       THEN Fail("ENV_FILE_NOT_FOUND") /\ UNCHANGED parseResult
       ELSE /\ parseResult' = parseEnvFile(envFile.text)
            /\ IF parseResult'.variables = <<>>
               THEN Fail("ENV_FILE_EMPTY")
               ELSE /\ pc' = IF options.dryRun THEN "template" ELSE "checkCli"
                    /\ UNCHANGED <<exitCode, errorCode>>
    /\ UNCHANGED <<idleVars, options, calls, runs, providerVars, pushVars, tplFile>>

CheckCli ==
    /\ pc = "checkCli"
    /\ \E opInstalled \in BOOLEAN :
         /\ calls' = Append(calls, Call("version", opInstalled))
         /\ IF opInstalled
            THEN pc' = "checkSignedIn" /\ UNCHANGED <<exitCode, errorCode>>
            ELSE Fail("OP_CLI_NOT_INSTALLED")
    /\ UNCHANGED <<idleVars, parseResult, options, runs, providerVars, pushVars, tplFile>>

CheckSignedIn ==
    /\ pc = "checkSignedIn"
    /\ \E signedIn \in BOOLEAN :
         /\ calls' = Append(calls, Call("account get", signedIn))
         /\ IF signedIn
            THEN pc' = "vaultLookup" /\ UNCHANGED <<exitCode, errorCode>>
            ELSE Fail("OP_NOT_SIGNED_IN")
    /\ UNCHANGED <<idleVars, parseResult, options, runs, providerVars, pushVars, tplFile>>

VaultLookup ==
    /\ pc = "vaultLookup"
    /\ \E up \in BOOLEAN :
         LET vaultFound == vaultExists(opVaultGet(up, vaultCount))
         IN  /\ calls' = Append(calls, Call("vault get", vaultFound))
             /\ pc' = IF vaultFound THEN "itemLookup"
                      ELSE IF options.force THEN "createVault" ELSE "confirmVault"
    /\ UNCHANGED <<idleVars, parseResult, options, exitCode, errorCode, runs,
                   providerVars, pushVars, tplFile>>

ConfirmVault ==
    /\ pc = "confirmVault"
    /\ \E shouldCreate \in Answers :
         /\ calls' = Append(calls, Call("confirm vault", Confirmed(shouldCreate)))
         /\ IF Confirmed(shouldCreate)
            THEN pc' = "createVault" /\ UNCHANGED <<exitCode, errorCode>>
            ELSE Cancel
    /\ UNCHANGED <<idleVars, parseResult, options, runs, providerVars, pushVars, tplFile>>

\* createVault: the outcome of op vault create is not looked at.
CreateVault ==
    /\ pc = "createVault"
    /\ \E created \in BOOLEAN :
         /\ created => vaultCount < MaxVaults
         /\ vaultCount' = IF created THEN vaultCount + 1 ELSE vaultCount
         /\ calls' = Append(calls, Call("vault create", created))
    /\ pc' = "itemLookup"
    /\ UNCHANGED <<idleVars, parseResult, options, exitCode, errorCode, runs, items,
                   nextId, pushVars, tplFile>>


\* The item that exists is updated without a confirmation, forced or not.
ItemLookupNoConfirm ==
    /\ pc = "itemLookup"
    /\ \E resp \in opItemList(vaultCount, items) :
         /\ listResponse' = resp
         /\ exists' = itemExists(resp, Title)
         /\ calls' = Append(calls, Call("item list", resp.exitCode = 0))
    /\ pc' = IF exists' THEN "edit" ELSE "create"
    /\ UNCHANGED <<idleVars, parseResult, options, exitCode, errorCode, runs,
                   providerVars, envFile, itemResult, written, tplFile>>

\* const exists = await itemExists(vault, itemName)
ItemLookup ==
    /\ pc = "itemLookup"
    /\ \E resp \in opItemList(vaultCount, items) :
         /\ listResponse' = resp
         /\ exists' = itemExists(resp, Title)
         /\ calls' = Append(calls, Call("item list", resp.exitCode = 0))
    /\ pc' = IF exists' THEN (IF options.force THEN "edit" ELSE "confirmItem") ELSE "create"
    /\ UNCHANGED <<idleVars, parseResult, options, exitCode, errorCode, runs,
                   providerVars, envFile, itemResult, written, tplFile>>

ConfirmItem ==
    /\ pc = "confirmItem"
    /\ \E shouldOverwrite \in Answers :
         /\ calls' = Append(calls, Call("confirm item", Confirmed(shouldOverwrite)))
         /\ IF Confirmed(shouldOverwrite)
            THEN pc' = "edit" /\ UNCHANGED <<exitCode, errorCode>>
            ELSE Cancel
    /\ UNCHANGED <<idleVars, parseResult, options, runs, providerVars, pushVars, tplFile>>

\* The exit code of op item edit is not looked at: the read-back follows a failed edit.
EditItemIgnoresFailure ==
    /\ pc = "edit"
    /\ \E up \in BOOLEAN :
         LET r == UpdateItem(up, vaultCount, items, parseResult.variables,
                             options.secret, nextId)
         IN  /\ calls' = Append(calls, Call("item edit", r.ok))
             /\ items' = r.items
             /\ nextId' = r.nextId
             /\ pc' = "readBack" /\ UNCHANGED <<exitCode, errorCode>>
    /\ UNCHANGED <<idleVars, parseResult, options, runs, vaultCount, pushVars, tplFile>>

\* editSecureNote, step 1: op item edit.
EditItem ==
    /\ pc = "edit"
    /\ \E up \in BOOLEAN :
         LET r == UpdateItem(up, vaultCount, items, parseResult.variables,
                             options.secret, nextId)
         IN  /\ calls' = Append(calls, Call("item edit", r.ok))
             /\ items' = r.items
             /\ nextId' = r.nextId
             /\ IF r.ok
                THEN pc' = "readBack" /\ UNCHANGED <<exitCode, errorCode>>
                ELSE Fail("ITEM_CREATE_FAILED")
    /\ UNCHANGED <<idleVars, parseResult, options, runs, vaultCount, pushVars, tplFile>>

\* A failed op item create is issued again.
CreateItemRetry ==
    /\ pc = "create"
    /\ \E up \in BOOLEAN :
         LET r == opItemCreate(up, vaultCount, items, Title,
                               exec(fieldArgs(parseResult.variables, options.secret)),
                               nextId)
         IN  /\ calls' = Append(calls, Call("item create", r.ok))
             /\ items' = r.items
             /\ nextId' = r.nextId
             /\ IF r.ok
                THEN pc' = "readBack" /\ UNCHANGED <<exitCode, errorCode>>
                ELSE IF Len(calls) < 8
                THEN UNCHANGED <<pc, exitCode, errorCode>>
                ELSE Fail("ITEM_CREATE_FAILED")
    /\ UNCHANGED <<idleVars, parseResult, options, runs, vaultCount, pushVars, tplFile>>

\* createSecureNote, step 1: op item create.
CreateItem ==
    /\ pc = "create"
    /\ \E up \in BOOLEAN :
         LET r == opItemCreate(up, vaultCount, items, Title,
                               exec(fieldArgs(parseResult.variables, options.secret)),
                               nextId)
         IN  /\ calls' = Append(calls, Call("item create", r.ok))
             /\ items' = r.items
             /\ nextId' = r.nextId
             /\ IF r.ok
                THEN pc' = "readBack" /\ UNCHANGED <<exitCode, errorCode>>
                ELSE Fail("ITEM_CREATE_FAILED")
    /\ UNCHANGED <<idleVars, parseResult, options, runs, vaultCount, pushVars, tplFile>>

\* createSecureNote and editSecureNote, step 2: op item get and the result built
\* from its answer.
ReadBack ==
    /\ pc = "readBack"
    /\ \E getResult \in opItemGet(vaultCount, items, Title) :
         /\ calls' = Append(calls, Call("item get", getResult.exitCode = 0))
         /\ IF getResult.exitCode = 0
            THEN /\ itemResult' = ItemResultOf(getResult)
                 /\ pc' = "template"
                 /\ UNCHANGED <<exitCode, errorCode>>
            ELSE /\ Fail("ITEM_CREATE_FAILED")
                 /\ UNCHANGED itemResult
    /\ UNCHANGED <<idleVars, parseResult, options, runs, providerVars, envFile,
                   listResponse, exists, written, tplFile>>

\* Step 3: the template file; nothing is written on a dry run.
WriteTemplate ==
    /\ pc = "template"
    /\ IF options.dryRun
       THEN /\ pc' = "done" /\ exitCode' = 0
            /\ UNCHANGED <<errorCode, calls, tplFile, written>>
       ELSE LET opts == TemplateOptions(itemResult, parseResult)
                templateContent == generateTemplateContent(opts)
            IN  IF templateContent.error # ""
                THEN /\ Fail(templateContent.error)
                     /\ UNCHANGED <<calls, tplFile, written>>
                ELSE /\ tplFile' = [exists |-> TRUE, text |-> templateContent.text]
                     /\ written' = written \cup ReferencesOf(opts)
                     /\ calls' = Append(calls, Call("writeTemplate", TRUE))
                     /\ pc' = "done" /\ exitCode' = 0
                     /\ UNCHANGED errorCode
    /\ UNCHANGED <<idleVars, parseResult, options, runs, providerVars, envFile,
                   listResponse, exists, itemResult>>

Next ==
    \/ StartPush \/ ParseEnv \/ CheckCli \/ CheckSignedIn \/ VaultLookup \/ ConfirmVault
    \/ CreateVault \/ ItemLookup \/ ConfirmItem \/ EditItem \/ CreateItem \/ ReadBack
    \/ WriteTemplate

Spec == InitPush /\ [][Next]_vars


(***************************** runInject ************************************)
\* The secret the provider holds for a field; one secret is a separator line.
SecretOf(fieldId) == IF fieldId = "f9" THEN HEADER_SEPARATOR ELSE <<"1">>

\* op inject on one line: a reference, which runs to the end of the line, is replaced
\* by the secret of the field it names.
InjectLine(line) ==
    IF Includes(line, "ref://")
    THEN Slice(line, 0, IndexOf(line, "ref://", 0)) \o SecretOf(line[Len(line)])
    ELSE line

\* op inject -i templateFile -o outputPath -f: the text it writes to the output.
opInject(text) == [i \in 1 .. Len(text) |-> InjectLine(text[i])]

\* The header is put before the injected text as it is.
PostProcessNoStrip(rawContent) == prependHeader(rawContent)

\* What runInject writes back once op inject has written rawContent:
\* header + stripHeaders(rawContent).
PostProcess(rawContent) == prependHeader(stripHeaders(rawContent))

\* The templates and the earlier .env files a pull is given.
TemplateLinePool ==
    { <<>>,
      <<"#", " ", "c">>,
      HEADER_SEPARATOR,
      <<"A", "=", "ref://", VaultId, "/", "i1", "/", "f2">>,
      <<"ref://", VaultId, "/", "i1", "/", "f9">> }
Templates == UNION {[1 .. n -> TemplateLinePool] : n \in 1 .. MaxLines}
EarlierOutputs ==
    {NoFile} \cup
    {[exists |-> TRUE, text |-> t] :
        t \in {prependHeader(<< <<"A", "=", "0">> >>),
               << HEADER_SEPARATOR, <<"A", "=", "0">> >>}}

InitPull ==
    /\ ValueIdle
    /\ UpdateIdle
    /\ content = EmptyText /\ stripped = EmptyText /\ restripped = EmptyText
    /\ framed = EmptyText /\ unframed = EmptyText /\ done = {"idle"}
    /\ parseResult = EmptyResult
    /\ pc = "off" /\ options = [dryRun |-> FALSE, force |-> FALSE]
    /\ exitCode = -1 /\ errorCode = "" /\ calls = <<>> /\ runs = 0
    /\ envFile = NoFile /\ vaultCount = 1 /\ items = {} /\ nextId = 1
    /\ listResponse = NoListResponse /\ exists = FALSE /\ itemResult = NoItemResult
    /\ written = {}
    /\ tplFile \in {NoFile} \cup {[exists |-> TRUE, text |-> t] : t \in Templates}
    /\ outFile \in EarlierOutputs
    /\ pulled = 0

pullIdle == <<raw, value, valueDone, content, stripped, restripped, framed, unframed,
              done, parseResult, providerVars, pushVars, tplFile, updateVars>>

\* op2env <template_file> [--dry-run] [--force]
StartPull ==
    /\ pc \in {"off", "done", "exited"}
    /\ runs < MaxRuns
    /\ runs' = runs + 1
    /\ options' \in [dryRun : BOOLEAN, force : BOOLEAN]
    /\ pc' = "checkTemplate" /\ exitCode' = -1 /\ errorCode' = "" /\ calls' = <<>>
    /\ UNCHANGED <<pullIdle, outFile, pulled>>

\* Step 1: the template file exists.
CheckTemplate ==
    /\ pc = "checkTemplate"
    /\ IF ~tplFile.exists
       THEN Fail("TEMPLATE_NOT_FOUND")
       ELSE /\ pc' = IF options.dryRun THEN "outputCheck" ELSE "injectCheckCli"
            /\ UNCHANGED <<exitCode, errorCode>>
    /\ UNCHANGED <<pullIdle, options, calls, runs, outFile, pulled>>

\* Step 2: the provider CLI and the session, unless the run is dry.
InjectCheckCli ==
    /\ pc = "injectCheckCli"
    /\ \E opInstalled \in BOOLEAN :
         /\ calls' = Append(calls, Call("version", opInstalled))
         /\ IF opInstalled
            THEN pc' = "injectCheckSignedIn" /\ UNCHANGED <<exitCode, errorCode>>
            ELSE Fail("OP_CLI_NOT_INSTALLED")
    /\ UNCHANGED <<pullIdle, options, runs, outFile, pulled>>

InjectCheckSignedIn ==
    /\ pc = "injectCheckSignedIn"
    /\ \E signedIn \in BOOLEAN :
         /\ calls' = Append(calls, Call("account get", signedIn))
         /\ IF signedIn
            THEN pc' = "outputCheck" /\ UNCHANGED <<exitCode, errorCode>>
            ELSE Fail("OP_NOT_SIGNED_IN")
    /\ UNCHANGED <<pullIdle, options, runs, outFile, pulled>>

\* The dry-run option is not looked at: the pull goes on to the inject call.
OutputCheckIgnoresDryRun ==
    /\ pc = "outputCheck"
    /\ pc' = IF outFile.exists /\ ~options.force THEN "confirmOverwrite" ELSE "inject"
    /\ UNCHANGED <<pullIdle, options, exitCode, errorCode, calls, runs, outFile, pulled>>

\* Step 3: a dry run ends here; an existing output asks for a confirmation unless forced.
OutputCheck ==
    /\ pc = "outputCheck"
    /\ LET outputExists == outFile.exists
       IN  IF options.dryRun
           THEN pc' = "done" /\ exitCode' = 0
           ELSE /\ pc' = IF outputExists /\ ~options.force THEN "confirmOverwrite" ELSE "inject"
                /\ UNCHANGED exitCode
    /\ UNCHANGED <<pullIdle, options, errorCode, calls, runs, outFile, pulled>>

\* The answer to the prompt is not looked at: the pull goes on to the inject call.
ConfirmOverwriteAnyAnswer ==
    /\ pc = "confirmOverwrite"
    /\ \E shouldOverwrite \in Answers :
         calls' = Append(calls, Call("confirm overwrite", Confirmed(shouldOverwrite)))
    /\ pc' = "inject"
    /\ UNCHANGED <<pullIdle, options, exitCode, errorCode, runs, outFile, pulled>>

ConfirmOverwrite ==
    /\ pc = "confirmOverwrite"
    /\ \E shouldOverwrite \in Answers :
         /\ calls' = Append(calls, Call("confirm overwrite", Confirmed(shouldOverwrite)))
         /\ IF Confirmed(shouldOverwrite)
            THEN pc' = "inject" /\ UNCHANGED <<exitCode, errorCode>>
            ELSE Cancel
    /\ UNCHANGED <<pullIdle, options, runs, outFile, pulled>>

\* Step 4: op inject writes the output, which is read back, stripped of its headers
\* and written again under a fresh header.
Inject ==
    /\ pc = "inject"
    /\ \E injected \in BOOLEAN :
         /\ calls' = Append(calls, Call("inject", injected))
         /\ IF injected
            THEN /\ outFile' = [exists |-> TRUE, text |-> PostProcess(opInject(tplFile.text))]
                 /\ pulled' = pulled + 1
                 /\ pc' = "done" /\ exitCode' = 0
                 /\ UNCHANGED errorCode
            ELSE /\ Fail("INJECT_FAILED")
                 /\ UNCHANGED <<outFile, pulled>>
    /\ UNCHANGED <<pullIdle, options, runs>>

NextPull ==
    \/ StartPull \/ CheckTemplate \/ InjectCheckCli \/ InjectCheckSignedIn \/ OutputCheck
    \/ ConfirmOverwrite \/ Inject

SpecPull == InitPull /\ [][NextPull]_vars

(***************************** env2op and op2env, run in turn ***************)
\* The invocations of the two commands follow one another on the same vault and the
\* same files: a pull reads the template the last push wrote.
InitCli ==
    /\ ValueIdle
    /\ UpdateIdle
    /\ content = EmptyText /\ stripped = EmptyText /\ restripped = EmptyText
    /\ framed = EmptyText /\ unframed = EmptyText /\ done = {"idle"}
    /\ parseResult = EmptyResult
    /\ pc = "off" /\ options = [dryRun |-> FALSE, secret |-> FALSE, force |-> FALSE]
    /\ exitCode = -1 /\ errorCode = "" /\ calls = <<>> /\ runs = 0
    /\ envFile = NoFile
    /\ vaultCount \in {0, 1}
    /\ items = {}
    /\ nextId = 1
    /\ listResponse = NoListResponse /\ exists = FALSE /\ itemResult = NoItemResult
    /\ tplFile = NoFile /\ written = {}
    /\ outFile \in {NoFile, [exists |-> TRUE, text |-> prependHeader(<< <<"A", "=", "0">> >>)]}
    /\ pulled = 0

NextCli == Next \/ NextPull

SpecCli == InitCli /\ [][NextCli]_vars

\* The command of the invocation: only env2op has the secret option.
IsPush == "secret" \in DOMAIN options

(***************************** lib/update ***********************************)
\* getCliVersion(), and the versions the registry can name.
CurrentVersion == <<1, 0, 0>>
RegistryVersions == {<<1, 0, 0>>, <<1, 1>>}

shouldCheckForUpdate(c, t) == t - c.lastCheck > CHECK_INTERVAL_MS

\* compareVersions: the first three parts decide, a missing part counts as 0.
compareVersions(v1, v2) ==
    LET Part(v, i) == IF i <= Len(v) THEN v[i] ELSE 0
        RECURSIVE Compare(_)
        Compare(i) ==
            IF i > 3 THEN 0
            ELSE IF Part(v1, i) < Part(v2, i) THEN -1
            ELSE IF Part(v1, i) > Part(v2, i) THEN 1
            ELSE Compare(i + 1)
    IN  Compare(1)

\* cache.skipVersion === latestVersion; the field is absent until a version is skipped.
IsSkipped(c, latestVersion) ==
    "skipVersion" \in DOMAIN c /\ c.skipVersion = latestVersion

UpdateCheckResult(c, latestVersion, fromCache) ==
    [latestVersion |-> latestVersion,
     updateAvailable |-> compareVersions(CurrentVersion, latestVersion) < 0,
     isSkipped |-> IsSkipped(c, latestVersion),
     fromCache |-> fromCache]

\* The invocation is over: the command has exited, or it has returned and the update
\* check that follows it has returned as well.
Terminated == pc \in {"off", "exited"} \/ (pc = "done" /\ checkedRun = runs)

\* checkForUpdate() after runConvert or runInject has returned, up to the return of
\* the cached result or to the request sent to the registry.
CheckForUpdate ==
    /\ pc = "done" /\ checkedRun < runs /\ ~fetching
    /\ IF ~shouldCheckForUpdate(cache, now) /\ cache.latestVersion # Null
       THEN /\ updateResult' = UpdateCheckResult(cache, cache.latestVersion, TRUE)
            /\ checkedRun' = runs
            /\ UNCHANGED <<fetching, requests>>
       ELSE /\ fetching' = TRUE
            /\ requests' = Append(requests, [at |-> now, lastCheck |-> cache.lastCheck,
                                             run |-> runs])
            /\ UNCHANGED <<updateResult, checkedRun>>
    /\ UNCHANGED <<now, cache, parserVars, valueVars, pc, options, exitCode, errorCode,
                   calls, runs, pulled, providerVars, pushVars, tplFile, outFile>>

\* fetchLatestVersion settles, with the version the registry names or with null when
\* the request failed; the cache is saved and the result returned.
FetchLatestVersion ==
    /\ fetching
    /\ \E latestVersion \in RegistryVersions \cup {Null} :
         /\ cache' = [cache EXCEPT !.lastCheck = now, !.latestVersion = latestVersion]
         /\ updateResult' = IF latestVersion = Null THEN NoUpdateResult
                            ELSE UpdateCheckResult(cache, latestVersion, FALSE)
    /\ fetching' = FALSE
    /\ checkedRun' = runs
    /\ UNCHANGED <<now, requests, parserVars, valueVars, pc, options, exitCode, errorCode,
                   calls, runs, pulled, providerVars, pushVars, tplFile, outFile>>

\* skipVersion(result.latestVersion), between two invocations: the user skips the
\* newer version that the last check has found.
SkipVersion ==
    /\ Terminated
    /\ cache.latestVersion # Null
    /\ compareVersions(CurrentVersion, cache.latestVersion) < 0
    /\ ~IsSkipped(cache, cache.latestVersion)
    /\ cache' = [lastCheck |-> cache.lastCheck, latestVersion |-> cache.latestVersion,
                 skipVersion |-> cache.latestVersion]
    /\ UNCHANGED <<now, checkedRun, fetching, requests, updateResult, parserVars,
                   valueVars, pc, options, exitCode, errorCode, calls, runs, pulled,
                   providerVars, pushVars, tplFile, outFile>>

\* Time passes between two invocations.
Tick ==
    /\ now < MaxTime
    /\ Terminated
    /\ now' = now + 1
    /\ UNCHANGED <<cache, checkedRun, fetching, requests, updateResult, parserVars,
                   valueVars, pc, options, exitCode, errorCode, calls, runs, pulled,
                   providerVars, pushVars, tplFile, outFile>>

\* The next invocation starts when the one before it is over.
StartCheckedPush == Terminated /\ StartPush
StartCheckedPull == Terminated /\ StartPull

\* The steps of the command and of the update check, the registry's answer apart.
LaterStep ==
    \/ CheckCli \/ CheckSignedIn \/ VaultLookup \/ ConfirmVault
    \/ CreateVault \/ ItemLookup \/ ConfirmItem \/ EditItem \/ CreateItem \/ ReadBack
    \/ WriteTemplate
    \/ CheckTemplate \/ InjectCheckCli \/ InjectCheckSignedIn \/ OutputCheck
    \/ ConfirmOverwrite \/ Inject
    \/ CheckForUpdate

CommandStep == ParseEnv \/ LaterStep

NextUpdate ==
    \/ StartCheckedPush \/ StartCheckedPull \/ CommandStep
    \/ FetchLatestVersion \/ SkipVersion \/ Tick

SpecUpdate == InitCli /\ [][NextUpdate]_vars

\* One invocation, from its start to its end, on a vault that may hold the item, with
\* a template that may exist and an update cache that may be fresh.
InitInvocation ==
    /\ ValueIdle
    /\ content = EmptyText /\ stripped = EmptyText /\ restripped = EmptyText
    /\ framed = EmptyText /\ unframed = EmptyText /\ done = {"idle"}
    /\ parseResult = EmptyResult
    /\ pc = "off" /\ options = [dryRun |-> FALSE, secret |-> FALSE, force |-> FALSE]
    /\ exitCode = -1 /\ errorCode = "" /\ calls = <<>> /\ runs = 0
    /\ envFile = NoFile
    /\ vaultCount \in {0, 1}
    /\ items \in {{}} \cup
                 (IF vaultCount = 1
                  THEN {{[id |-> "i0", title |-> Title, fields |-> <<BuiltInField>>]}}
                  ELSE {})
    /\ nextId = 1
    /\ listResponse = NoListResponse /\ exists = FALSE /\ itemResult = NoItemResult
    /\ tplFile \in {NoFile, [exists |-> TRUE, text |-> << <<"#", " ", "c">> >>]}
    /\ written = {}
    /\ outFile \in {NoFile, [exists |-> TRUE, text |-> prependHeader(<< <<"A", "=", "0">> >>)]}
    /\ pulled = 0
    /\ now = CHECK_INTERVAL_MS + 1
    /\ cache \in {DefaultCache,
                  [lastCheck |-> now, latestVersion |-> <<1, 1>>],
                  [lastCheck |-> 0, latestVersion |-> <<1, 1>>, skipVersion |-> <<1, 1>>]}
    /\ checkedRun = 0 /\ fetching = FALSE /\ requests = <<>>
    /\ updateResult = NoUpdateResult

StartFirstPush == runs = 0 /\ StartPush
StartFirstPull == runs = 0 /\ StartPull

NextInvocation == StartFirstPush \/ StartFirstPull \/ CommandStep \/ FetchLatestVersion

SpecInvocation == InitInvocation /\ [][NextInvocation]_vars

\* Every step the program can take by itself is taken in the end; the registry owes
\* no answer.
\* ParseEnv is enabled exactly while pc = "parse" and leaves that position, so its
\* weak fairness is written as the position being left again and again.
SpecInvocationFair == SpecInvocation /\ WF_vars(LaterStep) /\ []<>(pc # "parse")

\* The registry answers every request in the end, be it with a failure.
SpecInvocationAnswered == SpecInvocationFair /\ WF_vars(FetchLatestVersion)

(***************************** claims: both commands ************************)
InProgress == pc \notin {"off", "done", "exited"}
MutatingOps == {"vault create", "item create", "item edit", "inject", "writeTemplate"}

\* C13: no step of a dry run, of push or of pull, changes the vaults, the items, the
\* template file, the .env files, or issues a vault creation, an item creation, an item
\* edit, an inject or a template write.
DryRunStep ==
    (options.dryRun /\ InProgress) =>
        /\ UNCHANGED <<vaultCount, items, nextId, tplFile, outFile, envFile>>
        /\ \A i \in 1 .. Len(calls') : calls'[i].op \notin MutatingOps

C13_DryRunChangesNothing == [][DryRunStep]_vars

\* C13 witness: a dry run of pull has ended where a push had filled the vault and
\* written the template, and an output file exists.
C13_Witness ==
    /\ pc = "done" /\ options.dryRun /\ ~IsPush
    /\ items # {} /\ tplFile.exists /\ outFile.exists

\* C14, as stated: a dry run that ends has made the read-only checks of a real run: the
\* provider CLI, the session and, for a push, the vault and the item.
C14_DryRunPerformsChecks ==
    (options.dryRun /\ pc = "done") =>
        /\ Issued("version") /\ Issued("account get")
        /\ IsPush => Issued("vault get") /\ Issued("item list")

\* C14, amended: a dry run checks its input only, the .env file (present, with a
\* variable) for push and the template (present) for pull, which fail as in a real run;
\* it issues no provider call and otherwise ends with exit code 0.
InputError ==
    IF IsPush
    THEN IF ~envFile.exists THEN "ENV_FILE_NOT_FOUND"
         ELSE IF parseEnvFile(envFile.text).variables = <<>> THEN "ENV_FILE_EMPTY"
         ELSE ""
    ELSE IF ~tplFile.exists THEN "TEMPLATE_NOT_FOUND" ELSE ""

C14_DryRunChecksInputOnly ==
    /\ (options.dryRun /\ pc # "off") =>
          /\ calls = <<>>
          /\ pc = "exited" => errorCode = InputError /\ errorCode # "" /\ exitCode = 1
          /\ pc = "done" => InputError = "" /\ errorCode = "" /\ exitCode = 0
    /\ (~options.dryRun /\ pc \in {"done", "exited"}) =>
          /\ InputError # "" => errorCode = InputError /\ exitCode = 1 /\ calls = <<>>
          /\ errorCode \in {"ENV_FILE_NOT_FOUND", "ENV_FILE_EMPTY", "TEMPLATE_NOT_FOUND"} =>
                errorCode = InputError

\* C14 witness: a dry run of push ends with exit code 0 where no vault of the name
\* exists.
C14_Witness ==
    /\ options.dryRun /\ IsPush /\ pc = "done" /\ exitCode = 0
    /\ vaultCount = 0 /\ calls = <<>>

(***************************** claims: pull *********************************)
SeparatorLines(text) == {i \in 1 .. Len(text) : IsSeparator(text[i])}

\* C8: once a pull has written the output, however many pulls wrote it before and
\* whatever separator lines the template, the secrets or the earlier output held, the
\* output holds two separator lines, the opening one on its first line and the closing
\* one right after the generation marker.
C8_OneHeaderBlock ==
    pulled >= 1 =>
        /\ outFile.exists
        /\ SeparatorLines(outFile.text) = {1, 3}
        /\ ~IsSeparator(outFile.text[2])

\* C8 witness: the second of two pulls has written the output, from a template that
\* holds a separator line.
C8_Witness ==
    /\ pulled = 2 /\ pc = "done"
    /\ SeparatorLines(tplFile.text) # {}
    /\ SeparatorLines(outFile.text) = {1, 3}

(***************************** claims: push *********************************)
ItemWrites == SelectSeq(calls, LAMBDA c : c.op \in {"item create", "item edit"})
LabelsOf(it) == {it.fields[i].label : i \in 1 .. Len(it.fields)} \ {BuiltInField.label}
DesiredKeys == {parseResult.variables[i].key : i \in 1 .. Len(parseResult.variables)}

\* C1: once the edit request of a push has succeeded, the labels of the item, the
\* built-in field aside, are exactly the keys of the pushed file: the labels the file
\* no longer has were deleted.
C1_EditLeavesDesiredLabels ==
    Succeeded("item edit") =>
        \A it \in Matching(items, Title) : LabelsOf(it) = DesiredKeys

\* C2: the edit request of a push leaves the id of the item as it was and the id of
\* every field whose label the item has before and after it, and every reference a
\* template was given names the item, and the field of its key while the item has the key.
EditKeepsIds ==
    (pc = "edit" /\ pc' = "readBack") =>
        \A it \in Matching(items, Title) :
            \E after \in Matching(items', Title) :
                /\ after.id = it.id
                /\ \A i \in 1 .. Len(it.fields) :
                      it.fields[i].label \in LabelsOf(after) =>
                          \E j \in 1 .. Len(after.fields) :
                              /\ after.fields[j].id = it.fields[i].id
                              /\ after.fields[j].label = it.fields[i].label

ReferencesValid ==
    \A ref \in written :
        \E it \in items :
            /\ it.id = ref.itemId
            /\ ref.key \in LabelsOf(it) =>
                  \E j \in 1 .. Len(it.fields) :
                      it.fields[j].id = ref.fieldId /\ it.fields[j].label = ref.key

C2_IdsStable == [][EditKeepsIds]_vars /\ []ReferencesValid

\* C2 witness: a second push has edited the item an earlier push wrote a template
\* for, and has written its template in turn.
C2_Witness ==
    /\ runs = 2 /\ pc = "done" /\ Succeeded("item edit")
    /\ \E r1, r2 \in written : r1.key = <<"A">> /\ r2.key = <<"D">> /\ r1.itemId = r2.itemId

TemplateLineAsSpecified(line, out) ==
    IF line.type = "empty" THEN out = <<>>
    ELSE IF line.type = "comment" THEN out = line.content
    ELSE \E e \in itemResult.fieldIds :
            /\ e.label = line.key
            /\ out = line.key \o <<"=", "ref://", itemResult.vaultId, "/", itemResult.id,
                                   "/", e.id>>

SomeKeyWithoutId ==
    \E i \in 1 .. Len(parseResult.lines) :
        /\ parseResult.lines[i].type = "variable"
        /\ \A e \in itemResult.fieldIds : e.label # parseResult.lines[i].key

Prompts == {"confirm vault", "confirm item", "confirm overwrite"}

PrecededBy(op, prompt) ==
    \A i \in 1 .. Len(calls) :
        calls[i].op = op => i > 1 /\ calls[i - 1] = Call(prompt, TRUE)

DeclineIsLast ==
    \A i \in 1 .. Len(calls) :
        (calls[i].op \in Prompts /\ ~calls[i].ok) =>
            i = Len(calls) /\ pc = "exited" /\ exitCode = 0 /\ errorCode = ""

C15_PromptBeforeChange ==
    /\ ~options.force =>
          PrecededBy("vault create", "confirm vault") /\ PrecededBy("item edit", "confirm item")
    /\ options.force => \A i \in 1 .. Len(calls) : calls[i].op \notin Prompts
    /\ \A i \in 1 .. Len(calls) - 1 :
          /\ calls[i] = Call("vault get", FALSE) =>
                calls[i + 1].op = IF options.force THEN "vault create" ELSE "confirm vault"
          /\ (calls[i].op = "item list" /\ exists) =>
                calls[i + 1].op = IF options.force THEN "item edit" ELSE "confirm item"
    /\ DeclineIsLast
    /\ pc = "confirmVault" => ~options.force
    /\ pc = "confirmItem" => ~options.force

\* C15 witness: a push without force was asked about the update of the item, the user
\* declined, and the push has exited with code 0.
C15_Witness ==
    /\ ~options.force /\ pc = "exited" /\ exitCode = 0
    /\ calls # <<>> /\ calls[Len(calls)] = Call("confirm item", FALSE)
    /\ \E it \in Matching(items, Title) : TRUE

\* C16: a pull without force whose output file exists asks before it injects: the
\* inject call directly follows a confirmed prompt; a declined or cancelled prompt is
\* the last thing the pull does, it exits with code 0 and no inject call is issued; the
\* output file changes only in the step that issues a successful inject call.
OutputChangesOnlyByInject ==
    /\ outFile' # outFile => calls' = Append(calls, Call("inject", TRUE))
    /\ (pc = "outputCheck" /\ ~options.dryRun /\ ~options.force /\ outFile.exists) =>
          pc' = "confirmOverwrite"

PullAsksFirst ==
    /\ (pc = "inject" /\ outFile.exists /\ ~options.force) =>
          calls # <<>> /\ calls[Len(calls)] = Call("confirm overwrite", TRUE)
    /\ Call("confirm overwrite", FALSE) \in {calls[i] : i \in 1 .. Len(calls)} =>
          /\ calls[Len(calls)] = Call("confirm overwrite", FALSE)
          /\ ~Issued("inject")
          /\ pc = "exited" /\ exitCode = 0 /\ errorCode = ""

C16_DeclinedPullKeepsOutput == [][OutputChangesOnlyByInject]_vars /\ []PullAsksFirst

\* C16 witness: the user declined the overwrite of an output file that a pull had
\* written before; the file is as that pull left it.
C16_Witness ==
    /\ pc = "exited" /\ exitCode = 0 /\ ~options.force
    /\ calls # <<>> /\ calls[Len(calls)] = Call("confirm overwrite", FALSE)
    /\ pulled = 1 /\ outFile = [exists |-> TRUE, text |-> PostProcess(opInject(tplFile.text))]

(***************************** claims: errors *******************************)
\* C17: an invocation that has ended has exit code 1 if a fatal error occurred - the
\* input file missing or without a variable, the template missing, the provider CLI
\* missing, the session missing, a vault creation, item creation, item edit, read-back
\* or inject that failed, a missing field id - and exit code 0 otherwise.
FailedCalls ==
    {"version", "account get", "vault create", "item create", "item edit", "item get",
     "inject"}

FatalErrorOccurred ==
    \/ errorCode # ""
    \/ \E i \in 1 .. Len(calls) : calls[i].op \in FailedCalls /\ ~calls[i].ok

C17_ExitCodeTellsOutcome ==
    pc \in {"done", "exited"} => exitCode = (IF FatalErrorOccurred THEN 1 ELSE 0)

\* C18: when no vault of the name exists and the vault creation fails, the push ends
\* there with the error VAULT_CREATE_FAILED and exit code 1: no item list, item
\* creation or item edit is issued and no template is written.
C18_FailedVaultCreateIsFatal ==
    (vaultCount = 0 /\ Call("vault create", FALSE) \in {calls[i] : i \in 1 .. Len(calls)}) =>
        /\ pc = "exited" /\ errorCode = "VAULT_CREATE_FAILED" /\ exitCode = 1
        /\ ~Issued("item list") /\ ~Issued("item create") /\ ~Issued("item edit")
        /\ ~Issued("writeTemplate")

\* C19: a push whose session check failed has attempted one sign-in, and exits with
\* the authentication error only if the session is still missing after it; a push
\* whose session check succeeded has attempted none.
SignIns == SelectSeq(calls, LAMBDA c : c.op = "signin")

C19_OneSignInAttempt ==
    /\ Call("account get", FALSE) \in {calls[i] : i \in 1 .. Len(calls)} => Len(SignIns) = 1
    /\ (calls # <<>> /\ calls[Len(calls)] = Call("account get", TRUE) /\ Len(calls) = 2) =>
          Len(SignIns) = 0
    /\ errorCode = "OP_NOT_SIGNED_IN" => Len(SignIns) = 1

(***************************** claims: the item request *********************)
\* C20: the create request and the edit request of a push carry one field per parsed
\* variable, in the order of the variables, with the key as label, the parsed value as
\* value and the type of the secret flag, concealed when set and plain otherwise; the
\* item a create has made has these fields, after its built-in one, and the item an
\* edit has changed has a field of that label, value and type for every variable.
TypeOfFlag == IF options.secret THEN "CONCEALED" ELSE "STRING"

RequestAsSpecified(request) ==
    /\ Len(request) = Len(parseResult.variables)
    /\ \A i \in 1 .. Len(request) :
          /\ ArgLabel(request[i]) = parseResult.variables[i].key
          /\ ArgValue(request[i]) = parseResult.variables[i].value
          /\ ArgType(request[i]) = TypeOfFlag

CreatedAsSpecified(it) ==
    /\ Len(it.fields) = Len(parseResult.variables) + 1
    /\ \A i \in 1 .. Len(parseResult.variables) :
          /\ it.fields[i + 1].label = parseResult.variables[i].key
          /\ it.fields[i + 1].value = parseResult.variables[i].value
          /\ it.fields[i + 1].type = TypeOfFlag

EditedAsSpecified(it) ==
    \A i \in 1 .. Len(parseResult.variables) :
        \E j \in 1 .. Len(it.fields) :
            /\ it.fields[j].label = parseResult.variables[i].key
            /\ it.fields[j].value = parseResult.variables[i].value
            /\ it.fields[j].type = TypeOfFlag

C20_OneFieldPerVariable ==
    /\ pc \in {"create", "edit"} =>
          RequestAsSpecified(exec(fieldArgs(parseResult.variables, options.secret)))
    /\ Succeeded("item create") => \E it \in Matching(items, Title) : CreatedAsSpecified(it)
    /\ Succeeded("item edit") => \A it \in Matching(items, Title) : EditedAsSpecified(it)

\* C20 witness: a push with the secret flag has created the item from a file one of
\* whose values holds a single quote and "=".
C20_Witness ==
    /\ pc = "done" /\ options.secret /\ Succeeded("item create")
    /\ \E i \in 1 .. Len(parseResult.variables) :
          Includes(parseResult.variables[i].value, SQ)
    /\ \E it \in Matching(items, Title) : CreatedAsSpecified(it)

(***************************** claims: header removal and comments **********)
\* The lines of a text that a header block accounts for: the separator lines, and
\* the lines strictly between an opening separator (the first, third, ... of the
\* text) and the separator that closes it.
SeparatorsBefore(text, i) == Cardinality({j \in 1 .. i - 1 : IsSeparator(text[j])})

InsideClosedHeader(text, i) ==
    /\ ~IsSeparator(text[i])
    /\ SeparatorsBefore(text, i) % 2 = 1
    /\ \E j \in i + 1 .. Len(text) : IsSeparator(text[j])

HeaderLines(text) ==
    {i \in 1 .. Len(text) : IsSeparator(text[i]) \/ InsideClosedHeader(text, i)}

\* The lines of text at the indices in keep, in the order of the text.
RECURSIVE LinesAt(_, _, _)
LinesAt(text, keep, i) ==
    IF i > Len(text) THEN <<>>
    ELSE IF i \in keep THEN <<text[i]>> \o LinesAt(text, keep, i + 1)
    ELSE LinesAt(text, keep, i + 1)

\* C21: stripHeaders removes only the separator lines, the lines strictly between
\* an opening separator and its closing separator, and the blank lines at the start
\* of the result; every other line of the input is in the output, unchanged and in
\* the original order.
C21_StripRemovesOnlyHeaders ==
    "strip" \in done =>
        stripped = JoinLines(ShiftBlank(
                       LinesAt(content, (1 .. Len(content)) \ HeaderLines(content), 1)))

\* The kinds of line the tokenizer tells apart, on a line of the text it reads.
IsCommentLine(line) == ~IsBlank(line) /\ StartsWith(Trim(line), "#")
IsVariableLine(line) == ~IsBlank(line) /\ ~IsCommentLine(line) /\ Matches(Trim(line))

\* The indices of the lines of text that satisfy Test, in the order of the text.
IndicesWhere(text, Test(_)) ==
    SelectSeq([i \in 1 .. Len(text) |-> i], LAMBDA i : Test(text[i]))

\* The comment line a variable at index i of text can take its comment from: the
\* nearest comment line above it with no blank line and no variable in between;
\* 0 when there is none.
CommentLineFor(text, i) ==
    LET above == {j \in 1 .. i - 1 :
                    /\ IsCommentLine(text[j])
                    /\ \A m \in j + 1 .. i - 1 :
                         ~IsBlank(text[m]) /\ ~IsVariableLine(text[m])
                    /\ \A m \in j + 1 .. i - 1 : ~IsCommentLine(text[m])}
    IN  IF above = {} THEN 0 ELSE CHOOSE j \in above : TRUE

CommentText(line) == Trim(Tail(Trim(line)))

\* C22 as stated: the comment of a variable is the trimmed text after "#" of the
\* most recent comment line when no blank line and no other variable lies between
\* the two, and undefined otherwise.
C22_CommentIsTextOfLastCommentLine ==
    "parse" \in done =>
        LET text == stripHeaders(stripBom(content))
            at == IndicesWhere(text, IsVariableLine)
        IN  /\ Len(parseResult.variables) = Len(at)
            /\ \A k \in 1 .. Len(at) :
                 parseResult.variables[k].comment =
                    IF CommentLineFor(text, at[k]) = 0 THEN NoComment
                    ELSE CommentText(text[CommentLineFor(text, at[k])])

\* C22 amended: the same, except that a comment line with no text after "#" gives
\* an undefined comment.
C22_CommentIsNonEmptyTextOfLastCommentLine ==
    "parse" \in done =>
        LET text == stripHeaders(stripBom(content))
            at == IndicesWhere(text, IsVariableLine)
        IN  /\ Len(parseResult.variables) = Len(at)
            /\ \A k \in 1 .. Len(at) :
                 parseResult.variables[k].comment =
                    IF CommentLineFor(text, at[k]) = 0 THEN NoComment
                    ELSE IF CommentText(text[CommentLineFor(text, at[k])]) = <<>>
                    THEN NoComment
                    ELSE CommentText(text[CommentLineFor(text, at[k])])

\* A comment line, the variable that takes its text, and a second variable left
\* without a comment because the first one cleared it.
C22_Witness ==
    /\ "parse" \in done
    /\ Len(parseResult.variables) = 2
    /\ parseResult.variables[1].comment = <<"c">>
    /\ parseResult.variables[2].comment = NoComment

(***************************** claims: line numbers *************************)
\* An invalid line: it is no blank line, no comment and no KEY=VALUE line, and it
\* holds "=".
IsInvalidLine(line) ==
    /\ ~IsBlank(line) /\ ~IsCommentLine(line) /\ ~IsVariableLine(line)
    /\ Includes(Trim(line), "=")

\* The physical lines of the source file the tokenizer gets to see, in the order of
\* the file: those outside the header blocks, from the first non-blank one on.
PhysicalLinesRead(file) ==
    SelectSeq([i \in 1 .. Len(file) |-> i], LAMBDA i : i \in AfterLeadingBlank(file))

\* C23: the line of every variable is the 1-based number of the physical line of
\* the source file that holds the variable, and the N of every "Line N: Invalid
\* variable name" is the 1-based number of the offending line in the source file,
\* also for a file that begins with a header block or with blank lines.
C23_LineIsPhysicalLine ==
    "parse" \in done =>
        LET file == stripBom(content)
            read == PhysicalLinesRead(file)
            variableAt == SelectSeq(read, LAMBDA i : IsVariableLine(file[i]))
            invalidAt == SelectSeq(read, LAMBDA i : IsInvalidLine(file[i]))
        IN  /\ [k \in 1 .. Len(parseResult.variables) |-> parseResult.variables[k].line]
                 = variableAt
            /\ [k \in 1 .. Len(parseResult.errors) |-> parseResult.errors[k].line]
                 = invalidAt

(***************************** claims: the order of a push ******************)
\* The place of every provider call, prompt and write in the order of a push.
StepRank(op) ==
    CASE op = "version" -> 1
      [] op = "account get" -> 2
      [] op = "vault get" -> 3
      [] op = "confirm vault" -> 4
      [] op = "vault create" -> 5
      [] op = "item list" -> 6
      [] op = "confirm item" -> 7
      [] op \in {"item create", "item edit"} -> 8
      [] op = "item get" -> 9
      [] op = "writeTemplate" -> 10
      [] OTHER -> 0

\* The steps whose failure is fatal: the two checks and the three mutations with
\* the read-back that belongs to them.  A vault or an item that is not found is an
\* answer, not a failure.
FatalSteps == {"version", "account get", "vault create", "item create", "item edit",
               "item get"}

StepsInOrder ==
    \A i, j \in 1 .. Len(calls) : i < j => StepRank(calls[i].op) < StepRank(calls[j].op)

EarlierStepsTaken ==
    /\ calls # <<>> => (envFile.exists /\ parseResult.variables # <<>> /\ calls[1].op = "version")
    /\ \A i \in 2 .. Len(calls) :
         LET before == calls[i - 1].op
         IN  CASE calls[i].op = "account get" -> before = "version"
               [] calls[i].op = "vault get" -> before = "account get"
               [] calls[i].op = "confirm vault" -> before = "vault get"
               [] calls[i].op = "vault create" -> before \in {"vault get", "confirm vault"}
               [] calls[i].op = "item list" -> before \in {"vault get", "vault create"}
               [] calls[i].op = "confirm item" -> before = "item list"
               [] calls[i].op \in {"item create", "item edit"} ->
                      before \in {"item list", "confirm item"}
               [] calls[i].op = "item get" -> before \in {"item create", "item edit"}
               [] calls[i].op = "writeTemplate" -> before = "item get"
               [] OTHER -> FALSE

FatalFailureIsLast(steps) ==
    \A i \in 1 .. Len(calls) :
        (calls[i].op \in steps /\ ~calls[i].ok) => i = Len(calls)

ChecksBeforeProvider ==
    (\E i \in 1 .. Len(calls) : StepRank(calls[i].op) >= 3) =>
        Succeeded("version") /\ Succeeded("account get")

\* C24: in a push that is no dry run the steps come in the order parse, CLI check,
\* authentication check, vault lookup, optional vault creation, item lookup, item
\* create or edit, template write; a fatal failure at a step prevents every later
\* step; no vault or item call is issued unless both checks succeeded, and no
\* provider call at all when the env file is missing or holds no variable.
C24_StepsInFixedOrder ==
    (IsPush /\ ~options.dryRun) =>
        /\ StepsInOrder
        /\ EarlierStepsTaken
        /\ FatalFailureIsLast(FatalSteps)
        /\ ChecksBeforeProvider

(***************************** claims: the kind of a failure ****************)
\* The error kind the specification gives to the failure of a call: the kind of the
\* mutation the call belongs to; the read-back belongs to the create or edit made
\* just before it.
KindOfFailure(i) ==
    CASE calls[i].op = "vault create" -> "VAULT_CREATE_FAILED"
      [] calls[i].op = "item create" -> "ITEM_CREATE_FAILED"
      [] calls[i].op = "item edit" -> "ITEM_UPDATE_FAILED"
      [] calls[i].op = "item get" ->
            IF calls[i - 1].op = "item edit" THEN "ITEM_UPDATE_FAILED"
            ELSE "ITEM_CREATE_FAILED"
      [] OTHER -> ""

FailedMutations ==
    {i \in 1 .. Len(calls) :
        /\ calls[i].op \in {"vault create", "item create", "item edit", "item get"}
        /\ ~calls[i].ok}

\* C25: a failed provider mutation is reported with the error kind of the operation
\* that failed: VaultCreateFailed for the vault creation, ItemCreateFailed for the
\* item creation, ItemUpdateFailed for the edit request and for the read-back of the
\* edited item.
C25_FailureKindNamesOperation ==
    (IsPush /\ pc \in {"done", "exited"}) =>
        \A i \in FailedMutations : errorCode = KindOfFailure(i)

(***************************** claims: no retry, no late cancellation *******)
\* The provider operations that change state, of both commands.
StateChangingOps == {"vault create", "item create", "item edit", "inject"}

TimesIssued(op) == Cardinality({i \in 1 .. Len(calls) : calls[i].op = op})

\* The invocation has ended as cancelled: process.exit(0) without the work done.
EndedCancelled == pc = "exited" /\ exitCode = 0

\* C26: within one invocation each state-changing provider operation (vault create,
\* item create, item edit, inject) is issued at most once and never again after it
\* failed; an invocation is cancelled only by the answer to a prompt, never once
\* such a call is under way: the call made last is then that prompt, declined.
C26_NoRetryNoLateCancel ==
    /\ \A op \in StateChangingOps : TimesIssued(op) <= 1
    /\ TimesIssued("item create") + TimesIssued("item edit") <= 1
    /\ \A i \in 1 .. Len(calls) :
         (calls[i].op \in {"item create", "item edit", "inject"} /\ ~calls[i].ok)
            => i = Len(calls) /\ pc = "exited" /\ exitCode = 1
    /\ EndedCancelled =>
         /\ calls # <<>>
         /\ calls[Len(calls)].op \in Prompts
         /\ ~calls[Len(calls)].ok

\* A push that created the vault and then failed to create the item: it has ended,
\* with each of the two calls made once.
C26_Witness ==
    /\ pc = "exited" /\ exitCode = 1
    /\ Succeeded("vault create")
    /\ calls[Len(calls)] = Call("item create", FALSE)

(***************************** claims: the update check *********************)
\* A step of the update check: it sends a request, or it returns a result.
UpdateCheckStep == requests' # requests \/ checkedRun' # checkedRun

\* A step of the update check is taken once the command has returned, and leaves
\* the outcome of the command as it is.
AfterCommandOnly ==
    UpdateCheckStep => (pc = "done" /\ pc' = pc /\ exitCode' = exitCode)

OneRequestPerInvocation ==
    \A i, j \in 1 .. Len(requests) : requests[i].run = requests[j].run => i = j

\* C27: the update check runs only after the push or pull has finished, makes at
\* most one registry request per invocation, and whether the request succeeds,
\* fails or never answers, the invocation terminates with the exit code the command
\* has determined.
C27_UpdateCheckIsBestEffort ==
    /\ [][AfterCommandOnly]_vars
    /\ []OneRequestPerInvocation
    /\ ((runs > 0 /\ ~Terminated) ~> Terminated)

\* Every request is made at least an interval after the check recorded before it,
\* and no two requests lie less than an interval apart.
RequestsSpaced ==
    /\ \A i \in 1 .. Len(requests) :
         requests[i].at - requests[i].lastCheck >= CHECK_INTERVAL_MS
    /\ \A i, j \in 1 .. Len(requests) :
         i < j => requests[j].at - requests[i].at >= CHECK_INTERVAL_MS

\* A check that returns without a request returns what the cache holds.
CachedResultReturned ==
    (checkedRun' # checkedRun /\ ~fetching) =>
        /\ updateResult'.fromCache
        /\ updateResult'.latestVersion = cache.latestVersion

\* A check leaves the mark of a skipped version in the cache.
SkipMarkKept ==
    (UpdateCheckStep /\ "skipVersion" \in DOMAIN cache) =>
        ("skipVersion" \in DOMAIN cache' /\ cache'.skipVersion = cache.skipVersion)

\* C28: in any sequence of update checks that are not forced, a check made less than
\* 24 hours after the check recorded before it makes no registry request and returns
\* the cached result, whatever the outcome of that earlier check; at most one
\* request is made per 24 hours, and a skipped version stays marked.
C28_OneRequestPerInterval ==
    /\ []RequestsSpaced
    /\ [][CachedResultReturned /\ SkipMarkKept]_vars

(***************************** claims: the template file ********************)
\* The reference the template gives a key: the vault id, the item id and the field
\* id of the key as the item call of this invocation has returned them.
ReferenceFromResult(key) ==
    key \o <<"=", "ref://", itemResult.vaultId, "/", itemResult.id, "/",
             (CHOOSE f \in itemResult.fieldIds : f.label = key).id>>

TemplateWrittenAfterItem ==
    tplFile' # tplFile =>
        /\ IsPush /\ ~options.dryRun
        /\ Succeeded("item create") \/ Succeeded("item edit")
        /\ calls[Len(calls)] = Call("item get", TRUE)
        /\ itemResult # NoItemResult
        /\ tplFile'.exists
        /\ Len(tplFile'.text) = Len(parseResult.lines)
        /\ \A i \in 1 .. Len(parseResult.lines) :
             parseResult.lines[i].type = "variable" =>
                /\ \E f \in itemResult.fieldIds : f.label = parseResult.lines[i].key
                /\ tplFile'.text[i] = ReferenceFromResult(parseResult.lines[i].key)

\* C29: a push writes the template file only after the item create or edit of the
\* same invocation has returned successfully, with references made of the vault id,
\* the item id and the field ids that call returned; when the call fails, is
\* cancelled or is not reached, the template file stays as it was.
C29_TemplateOnlyAfterItem == [][TemplateWrittenAfterItem]_vars

\* A second push whose edit request failed: the template the first push wrote is
\* still there.
C29_Witness ==
    /\ runs = 2 /\ pc = "exited"
    /\ tplFile.exists
    /\ calls # <<>> /\ calls[Len(calls)] = Call("item edit", FALSE)

(***************************** claims: one item per title *******************)
AtMostOneItemOfTitle == Cardinality(Matching(items, Title)) <= 1

\* A create call is issued only while the vault holds no item of exactly the title.
CreateOnlyWhenAbsent ==
    (Len(calls') = Len(calls) + 1 /\ calls'[Len(calls')].op = "item create") =>
        Matching(items, Title) = {}

\* C30: over any sequence of pushes to the same vault with the same title, under any
\* answers of the provider (a failing or unparsable item list included), the vault
\* never holds more than one item of that title: a create call is issued only when
\* no item of exactly that title exists in the vault.
C30_OneItemPerTitle == []AtMostOneItemOfTitle /\ [][CreateOnlyWhenAbsent]_vars

====
